---- MODULE Spec2Model ----
(***************************************************************************)
(* A model of netphys' ping pipeline: ping.Ping (one external ping        *)
(* process read line by line through a generator) and pingtest.PingTest   *)
(* (an indexed ledger of Ping objects, their generators and the recorded  *)
(* response times).                                                        *)
(*                                                                         *)
(* Python values are tagged records [t, v]; text is a sequence of one     *)
(* character strings so that prefix tests, slicing and the trailing-unit  *)
(* stripping loop are computed the way the code computes them.  Floats    *)
(* are held in tenths (2.5 is 25).                                         *)
(***************************************************************************)
EXTENDS Integers, Sequences, FiniteSets, TLC

\* ------------------------------------------------------------------ bounds
MaxHosts == 2     \* most addresses handed to PingTest(...)
StatHosts == 1    \* the same where the statistics methods are called too
MaxLines == 2     \* most lines after their banners the ledger's processes print
GetLines == 2     \* the same where get is the only method called
PingLines == 3    \* the same for the processes of a Ping used directly
MaxGens == 1      \* most ping() generators made from one Ping object
MaxPackets == 2   \* largest packet count passed to ping(packets=...)
ReuseGens == 2    \* most ping() generators where a Ping is used again

Hosts == {"a", "b"}

\* ----------------------------------------------------------- Python values
PyNone == [t |-> "NoneType", v |-> 0]
PyInt(i) == [t |-> "int", v |-> i]
PyFloat(x) == [t |-> "float", v |-> x]
PyStr(s) == [t |-> "str", v |-> s]
PyBytes(cs) == [t |-> "bytes", v |-> cs]
PyList(xs) == [t |-> "list", v |-> xs]
PyTuple(xs) == [t |-> "tuple", v |-> xs]

\* A line as the generator holds it: what was printed at which position;
\* kind "eof" (position 0) is the b'' that readline returns at end of file.
NoLine == [kind |-> "eof", pos |-> 0]

\* How a call ends: it returns a value, raises an exception, or never
\* returns.  at is the line the generator held when it yielded, raised or
\* stopped returning (the exception's traceback refers to it).
Return(v) == [kind |-> "return", val |-> v, at |-> NoLine]
Raise(e) == [kind |-> "raise", val |-> [t |-> "exception", v |-> e], at |-> NoLine]
Hang == [kind |-> "hang", val |-> PyNone, at |-> NoLine]

\* a == b: values of different types are never equal
PyEq(a, b) == a.t = b.t /\ a.v = b.v

IsNone(x) == x.t = "NoneType"

\* isinstance(x, int)
IsInt(x) == x.t = "int"

\* ------------------------------------------------------------------- text
DigitChars == <<"0", "1", "2", "3", "4", "5", "6", "7", "8", "9">>
IsDigitChar(c) == \E d \in 1..10 : DigitChars[d] = c
DigitVal(c) == (CHOOSE d \in 1..10 : DigitChars[d] = c) - 1

\* str(n) for n >= 0, as characters
RECURSIVE DecChars(_)
DecChars(n) ==
    IF n < 10 THEN <<DigitChars[n + 1]>>
    ELSE DecChars(n \div 10) \o <<DigitChars[(n % 10) + 1]>>

ICMP_SEQ == <<"i", "c", "m", "p", "_", "s", "e", "q", "=">>
TIME == <<"t", "i", "m", "e", "=">>
UNREACHABLE == <<"U", "n", "r", "e", "a", "c", "h", "a", "b", "l", "e">>

\* item.startswith(search_term)
StartsWith(item, term) ==
    /\ Len(item) >= Len(term)
    /\ SubSeq(item, 1, Len(term)) = term

\* find_starting_item(iterable, search_term): the first item of the same
\* type that starts with search_term, or None.
find_starting_item(iterable, search_term) ==
    LET hits == {i \in 1..Len(iterable) :
                    /\ iterable[i].t = search_term.t
                    /\ StartsWith(iterable[i].v, search_term.v)}
    IN IF hits = {} THEN PyNone
       ELSE iterable[CHOOSE i \in hits : \A j \in hits : i <= j]

\* int(b) for a bytes value: a non-empty run of digits, else ValueError.
RECURSIVE DigitsVal(_)
DigitsVal(cs) ==
    IF cs = <<>> THEN 0
    ELSE 10 * DigitsVal(SubSeq(cs, 1, Len(cs) - 1)) + DigitVal(cs[Len(cs)])

AllDigits(cs) == \A i \in 1..Len(cs) : IsDigitChar(cs[i])

PyIntOf(cs) ==
    IF cs # <<>> /\ AllDigits(cs) THEN Return(PyInt(DigitsVal(cs)))
    ELSE Raise("ValueError")

\* float(b): digits with at most one ".", at least one digit; held in
\* tenths, so digits after the first decimal are not represented.
PyFloatOf(cs) ==
    LET dots == {i \in 1..Len(cs) : cs[i] = "."}
        ok == /\ Cardinality(dots) <= 1
              /\ \A i \in 1..Len(cs) : cs[i] = "." \/ IsDigitChar(cs[i])
              /\ \E i \in 1..Len(cs) : IsDigitChar(cs[i])
    IN IF ~ok THEN Raise("ValueError")
       ELSE IF dots = {} THEN Return(PyFloat(10 * DigitsVal(cs)))
       ELSE LET d == CHOOSE i \in dots : TRUE
                whole == SubSeq(cs, 1, d - 1)
                frac == SubSeq(cs, d + 1, Len(cs))
            IN Return(PyFloat(10 * DigitsVal(whole)
                              + (IF frac = <<>> THEN 0 ELSE DigitVal(frac[1]))))

\* The loop of ping.py:171-172: drop trailing characters until the last one
\* is a digit.  bytes.isdigit(b'') is False and b''[:-1] is b'', so text
\* without any digit never leaves the loop.
StripLoops(cs) == ~\E i \in 1..Len(cs) : IsDigitChar(cs[i])

RECURSIVE StripUnits(_)
StripUnits(cs) ==
    IF cs # <<>> /\ IsDigitChar(cs[Len(cs)]) THEN cs
    ELSE StripUnits(SubSeq(cs, 1, Len(cs) - 1))

\* 'Unreachable' in line: the literal is a str and every token of the line
\* is bytes, and a str never equals a bytes value.
IsUnreachableBytes(line) ==
    \E i \in 1..Len(line) : line[i].v = UNREACHABLE

IsUnreachable(line) ==
    \E i \in 1..Len(line) : PyEq(line[i], PyStr("Unreachable"))

\* ping.py:165-174: one token list to (icmp_seq, time), an exception, or a
\* loop that never ends.
ParseLine(line) ==
    LET seqtok == find_starting_item(line, PyBytes(ICMP_SEQ))
    IN IF IsNone(seqtok) THEN Raise("TypeError")
       ELSE LET icmp_seq == PyIntOf(SubSeq(seqtok.v, 10, Len(seqtok.v)))
            IN IF icmp_seq.kind = "raise" THEN icmp_seq
               ELSE IF IsUnreachable(line)
                    THEN Return(PyTuple(<<icmp_seq.val, PyNone>>))
               ELSE LET timetok == find_starting_item(line, PyBytes(TIME))
                    IN IF IsNone(timetok) THEN Raise("TypeError")
                       ELSE LET time == SubSeq(timetok.v, 6, Len(timetok.v))
                            IN IF StripLoops(time) THEN Hang
                               ELSE LET f == PyFloatOf(StripUnits(time))
                                    IN IF f.kind = "raise" THEN f
                                       ELSE Return(PyTuple(<<icmp_seq.val, f.val>>))

\* ---------------------------------------------------- the process's output
\* What a ping process prints.  Output line 1 is the banner; the line at
\* position pos carries icmp_seq = pos - 1.  The text of a line is fixed by
\* the process when the line is read.
Kinds == {"reply", "reply2", "unreachable", "notime", "badtime", "summary"}

SeqTok(pos) == PyBytes(ICMP_SEQ \o DecChars(pos - 1))

LineOf(kind, pos) ==
    CASE kind = "reply" ->
            <<PyBytes(<<"6", "4">>), SeqTok(pos),
              PyBytes(TIME \o <<"1", "0", "m", "s">>)>>
      [] kind = "reply2" ->
            <<SeqTok(pos), PyBytes(TIME \o <<"2", ".", "5">>),
              PyBytes(<<"m", "s">>)>>
      [] kind = "unreachable" ->
            <<PyBytes(<<"F", "r", "o", "m">>), SeqTok(pos),
              PyBytes(UNREACHABLE)>>
      [] kind = "notime" -> <<SeqTok(pos)>>
      [] kind = "badtime" -> <<SeqTok(pos), PyBytes(TIME \o <<"m", "s">>)>>
      [] kind = "summary" -> <<PyBytes(<<"-", "-", "-">>)>>

\* readline().split()
Tokens(line) == IF line.kind = "eof" THEN <<>> ELSE LineOf(line.kind, line.pos)

\* Every line a process can come to print, and end of file.
Lines ==
    {NoLine} \cup {[kind |-> k, pos |-> p] :
                      k \in Kinds, p \in 1..(1 + MaxLines + GetLines + PingLines)}

\* ping.py:164-174 for each of them: what the loop body makes of the line.
Parsed == [line \in Lines |-> ParseLine(Tokens(line))]

\* ------------------------------------------------------------------ state
VARIABLES
    addresses,   \* PingTest.addresses: list of address strings
    times,       \* PingTest.__times: list of generators (ids into gen)
    pings,       \* PingTest.__pings: list of Ping objects (ids into ping)
    responses,   \* PingTest.responses: list of lists of recorded times
    ping,        \* the Ping objects: ping_command (0: attribute not set)
    gen,         \* the generators made by Ping.ping
    proc,        \* the ping processes; proc[g] is the one generator g spawned
    hung,        \* the program is inside a loop that never ends
    quota,       \* lines the processes may still print
    call,        \* the operation the program performed last
    result       \* what that operation returned or raised

vars == <<addresses, times, pings, responses, ping, gen, proc, hung, quota,
          call, result>>

\* The objects behind the ledger's lists.
Heap == [ping |-> ping, gen |-> gen, proc |-> proc, hung |-> hung,
         quota |-> quota]

\* The ledger with its objects.
Ledger == [addresses |-> addresses, times |-> times, pings |-> pings,
           responses |-> responses, h |-> Heap]

NoProc == [spawned |-> FALSE, running |-> FALSE, emitted |-> 0, rd |-> 0, buf |-> 0]

NewGen(owner, bounded, packets, latest) ==
    [owner |-> owner, bounded |-> bounded, packets |-> packets,
     latest |-> latest, state |-> "created", done |-> 0, line |-> NoLine]

NewPing == [ping_command |-> 0]

\* ------------------------------------------- the process's stdout reader
\* stdout is an io.BufferedReader over the pipe.  buf counts the complete
\* lines in the reader's buffer, emitted - rd - buf those still in the pipe;
\* a raw read moves everything in the pipe into the buffer.  A read on an
\* empty pipe blocks while the process runs and is end of file once it
\* does not.
InPipe(p) == p.emitted - p.rd - p.buf

\* stdout.readline(): pos is the position of the line read, 0 at end of
\* file (b'').
readline(p) ==
    IF p.buf > 0
        THEN [blocked |-> FALSE, p |-> [p EXCEPT !.buf = @ - 1, !.rd = @ + 1],
              pos |-> p.rd + 1]
    ELSE IF InPipe(p) > 0
        THEN [blocked |-> FALSE,
              p |-> [p EXCEPT !.buf = InPipe(p) - 1, !.rd = @ + 1],
              pos |-> p.rd + 1]
    ELSE IF p.running
        THEN [blocked |-> TRUE, p |-> p, pos |-> 0]
    ELSE [blocked |-> FALSE, p |-> p, pos |-> 0]

\* stdout.peek().count(b'\n'): the buffer's content if it has any, else
\* the result of one raw read.
peek(p) ==
    IF p.buf > 0
        THEN [blocked |-> FALSE, p |-> p, count |-> p.buf]
    ELSE IF InPipe(p) > 0
        THEN [blocked |-> FALSE, p |-> [p EXCEPT !.buf = InPipe(p)],
              count |-> InPipe(p)]
    ELSE IF p.running
        THEN [blocked |-> TRUE, p |-> p, count |-> 0]
    ELSE [blocked |-> FALSE, p |-> p, count |-> 0]

\* ping.py:160-162: read a line, and while more than one further line is
\* buffered read the next one instead.
RECURSIVE SkipStale(_)
SkipStale(r) ==
    IF r.blocked THEN r
    ELSE LET pk == peek(r.p)
         IN IF pk.blocked THEN [blocked |-> TRUE, p |-> pk.p, pos |-> r.pos]
            ELSE IF pk.count > 1 THEN SkipStale(readline(pk.p))
            ELSE [blocked |-> FALSE, p |-> pk.p, pos |-> r.pos]

\* ping.py:159-164 taking the first branch whatever packets and latest are.
ReadSample_always_latest(p, packetsNone, latest) == SkipStale(readline(p))

\* ping.py:159-164: the line one iteration of the loop parses.
ReadSample(p, packetsNone, latest) ==
    IF packetsNone /\ latest THEN SkipStale(readline(p)) ELSE readline(p)

\* ------------------------------------------------------------- ping.Ping
\* Line 175 raises StopIteration inside the generator.  Interpreters
\* before PEP 479 took effect end the generator with it; later ones turn it
\* into RuntimeError.  Both are outcomes of the same source.
ExhaustedOutcomes == {Raise("StopIteration"), Raise("RuntimeError")}

\* One pass of the loop body of Ping.ping (lines 158-175) in generator g.
\* The set of possible outcomes [h, res]; empty when the read blocks.
Iterate(h, g) ==
    LET gg == h.gen[g]
    IN IF gg.bounded /\ gg.done = gg.packets
       THEN {[h |-> [h EXCEPT !.gen[g].state = "finished",
                              !.gen[g].line = NoLine], res |-> e] :
                e \in ExhaustedOutcomes}
       ELSE LET c == h.ping[gg.owner].ping_command
                r == ReadSample(h.proc[c], ~gg.bounded, gg.latest)
            IN IF r.blocked THEN {}
               ELSE {LET line == [kind |-> kind, pos |-> r.pos]
                         out == Parsed[line]
                         h1 == [h EXCEPT !.proc[c] = r.p, !.gen[g].line = line]
                     IN CASE out.kind = "return" ->
                               [h |-> [h1 EXCEPT !.gen[g].state = "suspended",
                                                 !.gen[g].done = @ + 1],
                                res |-> [out EXCEPT !.at = line]]
                          [] out.kind = "raise" ->
                               [h |-> [h1 EXCEPT !.gen[g].state = "finished",
                                                 !.gen[g].line = NoLine],
                                res |-> [out EXCEPT !.at = line]]
                          [] out.kind = "hang" ->
                               [h |-> [h1 EXCEPT !.gen[g].state = "running",
                                                 !.hung = TRUE],
                                res |-> [out EXCEPT !.at = line]]
                     : kind \in IF r.pos = 0 THEN {"eof"} ELSE Kinds}

\* Lines 152-153 without the readline() that takes the banner.
Spawn_keeps_banner(h, g) ==
    LET silent == [spawned |-> TRUE, running |-> FALSE, emitted |-> 0,
                   rd |-> 0, buf |-> 0]
        started(e, r) == [spawned |-> TRUE, running |-> r, emitted |-> 1 + e,
                          rd |-> 0, buf |-> 0]
        h0 == [h EXCEPT !.ping[h.gen[g].owner].ping_command = g]
    IN {[h0 EXCEPT !.proc[g] = silent]}
       \cup {[h0 EXCEPT !.proc[g] = started(e, r), !.quota = @ - e]
             : e \in 0..h.quota, r \in BOOLEAN}

\* Lines 152-153: spawn the process and read its first line.  By the time
\* the call is over the process has either exited without output, or
\* printed its banner and e further lines and is running or not.
Spawn(h, g) ==
    LET silent == [spawned |-> TRUE, running |-> FALSE, emitted |-> 0,
                   rd |-> 0, buf |-> 0]
        started(e, r) == [spawned |-> TRUE, running |-> r, emitted |-> 1 + e,
                          rd |-> 0, buf |-> 0]
        h0 == [h EXCEPT !.ping[h.gen[g].owner].ping_command = g]
    IN {[h0 EXCEPT !.proc[g] = readline(silent).p]}
       \cup {[h0 EXCEPT !.proc[g] = readline(started(e, r)).p,
                        !.quota = @ - e]
             : e \in 0..h.quota, r \in BOOLEAN}

\* generator.__next__() for generator g.
gen_next(h, g) ==
    CASE h.gen[g].state = "finished" -> {[h |-> h, res |-> Raise("StopIteration")]}
      [] h.gen[g].state = "created" -> UNION {Iterate(h1, g) : h1 \in Spawn(h, g)}
      [] h.gen[g].state = "suspended" -> Iterate(h, g)
      [] OTHER -> {}

\* Ping.stop without the except clause.
Ping_stop_unguarded(h, p) ==
    IF h.ping[p].ping_command = 0
    THEN [h |-> h, res |-> Raise("AttributeError")]
    ELSE [h |-> [h EXCEPT !.proc[h.ping[p].ping_command].running = FALSE],
          res |-> Return(PyNone)]

\* Ping.stop (lines 177-182): kill self.ping_command; a Ping that never
\* started has no such attribute and the AttributeError is swallowed.
Ping_stop(h, p) ==
    IF h.ping[p].ping_command = 0
    THEN [h |-> h, res |-> Return(PyNone)]
    ELSE [h |-> [h EXCEPT !.proc[h.ping[p].ping_command].running = FALSE],
          res |-> Return(PyNone)]

\* ------------------------------------------------------ pingtest.PingTest
\* Python list indexing: position (1-based) of index i in a list of n items,
\* 0 when i is out of range.  Negative indices count from the end.
ListPos(n, i) ==
    IF 0 <= i /\ i < n THEN i + 1
    ELSE IF i < 0 /\ -n <= i THEN n + i + 1
    ELSE 0

\* list.pop(index) on a valid position
PopAt(xs, pos) == SubSeq(xs, 1, pos - 1) \o SubSeq(xs, pos + 1, Len(xs))

\* list.index(x): zero-based index of the first match, -1 for ValueError
IndexOf(xs, x) ==
    LET hits == {i \in 1..Len(xs) : xs[i] = x}
    IN IF hits = {} THEN -1 ELSE (CHOOSE i \in hits : \A j \in hits : i <= j) - 1

RECURSIVE get(_, _)

\* PingTest.__get_address_index (lines 51-60): None and ints come back as
\* they are; for a string the method returns self.get(index of the string).
get_address_index(L, address) ==
    IF IsNone(address) \/ IsInt(address) THEN {[L |-> L, res |-> Return(address)]}
    ELSE LET i == IndexOf(L.addresses, address.v)
         IN IF i < 0 THEN {[L |-> L, res |-> Raise("ValueError")]}
            ELSE get(L, PyInt(i))

\* Lines 73-76: pull from one generator and record the time.
get_one(L, index) ==
    LET pos == ListPos(Len(L.times), index)
    IN IF pos = 0 THEN {[L |-> L, res |-> Raise("IndexError")]}
       ELSE {IF o.res.kind = "return"
             THEN [L |-> [L EXCEPT !.h = o.h,
                                   !.responses[pos] = Append(@, o.res.val.v[2])],
                   res |-> Return(o.res.val.v[2])]
             ELSE [L |-> [L EXCEPT !.h = o.h], res |-> o.res]
             : o \in gen_next(L.h, L.times[pos])}

\* Lines 77-80 with the range one short.
RECURSIVE get_loop_one_short(_, _, _, _)
get_loop_one_short(L, index, stop, answer) ==
    IF index >= stop - 1 THEN {[L |-> L, res |-> Return(PyList(answer))]}
    ELSE UNION {IF o.res.kind = "return"
                THEN get_loop_one_short(o.L, index + 1, stop, Append(answer, o.res.val))
                ELSE {o}
                : o \in get(L, PyInt(index))}

\* Lines 77-80: for index in range(len(self.__times)).
RECURSIVE get_loop(_, _, _, _)
get_loop(L, index, stop, answer) ==
    IF index >= stop THEN {[L |-> L, res |-> Return(PyList(answer))]}
    ELSE UNION {IF o.res.kind = "return"
                THEN get_loop(o.L, index + 1, stop, Append(answer, o.res.val))
                ELSE {o}
                : o \in get(L, PyInt(index))}

\* PingTest.get (lines 62-80)
get(L, address) ==
    UNION {IF a.res.kind # "return" THEN {a}
           ELSE IF IsInt(a.res.val) THEN get_one(a.L, a.res.val.v)
           ELSE get_loop(a.L, 0, Len(a.L.times), <<>>)
           : a \in get_address_index(L, address)}

\* min, max and statistics.mean over one recorded history.  The mean of
\* floats is held as the pair <<sum, count>>.
RECURSIVE SumOf(_)
SumOf(xs) == IF xs = <<>> THEN 0 ELSE xs[1].v + SumOf(Tail(xs))

\* min and max taking the first recorded time.
ApplyStat_first(stat, xs) ==
    IF xs = <<>>
        THEN Raise(IF stat = "mean" THEN "StatisticsError" ELSE "ValueError")
    ELSE IF stat = "mean"
        THEN Return([t |-> "quotient", v |-> <<SumOf(xs), Len(xs)>>])
    ELSE Return(xs[1])

ApplyStat(stat, xs) ==
    IF xs = <<>>
        THEN Raise(IF stat = "mean" THEN "StatisticsError" ELSE "ValueError")
    ELSE IF \E i \in 1..Len(xs) : IsNone(xs[i])
        THEN IF Len(xs) = 1 /\ stat # "mean" THEN Return(xs[1]) ELSE Raise("TypeError")
    ELSE CASE stat = "min" ->
                Return(xs[CHOOSE i \in 1..Len(xs) : \A j \in 1..Len(xs) : xs[i].v <= xs[j].v])
           [] stat = "max" ->
                Return(xs[CHOOSE i \in 1..Len(xs) : \A j \in 1..Len(xs) : xs[i].v >= xs[j].v])
           [] stat = "mean" ->
                Return([t |-> "quotient", v |-> <<SumOf(xs), Len(xs)>>])

RECURSIVE do_stat(_, _, _)

\* Lines 92-95
RECURSIVE stat_loop(_, _, _, _, _)
stat_loop(L, stat, index, stop, answers) ==
    IF index >= stop THEN {[L |-> L, res |-> Return(PyList(answers))]}
    ELSE UNION {IF o.res.kind = "return"
                THEN stat_loop(o.L, stat, index + 1, stop, Append(answers, o.res.val))
                ELSE {o}
                : o \in do_stat(L, stat, PyInt(index))}

\* PingTest._do_stat (lines 82-95)
do_stat(L, stat, address) ==
    UNION {IF a.res.kind # "return" THEN {a}
           ELSE IF IsInt(a.res.val)
                THEN LET pos == ListPos(Len(a.L.responses), a.res.val.v)
                     IN IF pos = 0 THEN {[L |-> a.L, res |-> Raise("IndexError")]}
                        ELSE {[L |-> a.L, res |-> ApplyStat(stat, a.L.responses[pos])]}
           ELSE stat_loop(a.L, stat, 0, Len(a.L.times), <<>>)
           : a \in get_address_index(L, address)}

\* The loop of PingTest.stop starting at the second Ping.
RECURSIVE stop_loop_skips_first(_, _, _)
stop_loop_skips_first(h, ps, k) ==
    IF k > Len(ps) THEN h
    ELSE IF k = 1 THEN stop_loop_skips_first(h, ps, 2)
    ELSE stop_loop_skips_first(Ping_stop(h, ps[k]).h, ps, k + 1)

\* PingTest.stop (lines 121-124)
RECURSIVE stop_loop(_, _, _)
stop_loop(h, ps, k) ==
    IF k > Len(ps) THEN h ELSE stop_loop(Ping_stop(h, ps[k]).h, ps, k + 1)

PingTest_stop(L) == [L EXCEPT !.h = stop_loop(L.h, L.pings, 1)]

\* A generator popped off __times has no reference left and is finalized
\* where it stands; the reader of its process, killed or never spawned, is
\* freed with the Ping that held it.
collect(h, g) ==
    [h EXCEPT !.gen[g].state = "collected", !.gen[g].done = 0,
              !.gen[g].line = NoLine,
              !.proc[g].emitted = 0, !.proc[g].rd = 0, !.proc[g].buf = 0]

\* Lines 133-137 without the pop of responses.
evict_keep_responses(L, index) ==
    LET n == Len(L.addresses)
        pos == ListPos(n, index)
        h1 == Ping_stop(L.h, L.pings[pos]).h
    IN [L EXCEPT !.addresses = PopAt(@, pos), !.times = PopAt(@, pos),
                 !.pings = PopAt(@, pos),
                 !.h = collect(h1, L.times[pos])]

\* Lines 133-137 for an index the lists accept: pop the address and the
\* generator, stop the Ping, pop it and pop the history.  The Ping is then
\* unreferenced and its __del__ (lines 184-185) stops it once more; the
\* popped generator and the reader go with it.
evict(L, index) ==
    LET addrs == PopAt(L.addresses, ListPos(Len(L.addresses), index))
        g == L.times[ListPos(Len(L.times), index)]
        tms == PopAt(L.times, ListPos(Len(L.times), index))
        victim == L.pings[ListPos(Len(L.pings), index)]
        h1 == Ping_stop(L.h, victim).h
        pgs == PopAt(L.pings, ListPos(Len(L.pings), index))
        rsp == PopAt(L.responses, ListPos(Len(L.responses), index))
        h2 == Ping_stop(h1, victim).h
    IN [addresses |-> addrs, times |-> tms, pings |-> pgs, responses |-> rsp,
        h |-> collect(h2, g)]

\* PingTest.remove (lines 126-137).  list.pop takes an int only, and
\* raises IndexError before anything has changed when it is out of range.
remove(L, address) ==
    {IF a.res.kind # "return" THEN a
     ELSE IF ~IsInt(a.res.val) THEN [L |-> a.L, res |-> Raise("TypeError")]
     ELSE IF ListPos(Len(a.L.addresses), a.res.val.v) = 0
          THEN [L |-> a.L, res |-> Raise("IndexError")]
     ELSE [L |-> evict(a.L, a.res.val.v), res |-> Return(PyNone)]
     : a \in get_address_index(L, address)}

\* --------------------------------------------------------------- actions
\* What callers pass as the address argument.
Selectors ==
    {PyNone} \cup {PyInt(i) : i \in (0 - 1)..MaxHosts}
             \cup {PyStr(s) : s \in Hosts \cup {"x"}}

\* The operation and the type of its argument.
Call(op, arg) == [op |-> op, argt |-> arg.t]

SetLedger(L) ==
    /\ addresses' = L.addresses
    /\ times' = L.times
    /\ pings' = L.pings
    /\ responses' = L.responses
    /\ ping' = L.h.ping
    /\ gen' = L.h.gen
    /\ proc' = L.h.proc
    /\ hung' = L.h.hung
    /\ quota' = L.h.quota

SetHeap(h) ==
    /\ ping' = h.ping
    /\ gen' = h.gen
    /\ proc' = h.proc
    /\ hung' = h.hung
    /\ quota' = h.quota
    /\ UNCHANGED <<addresses, times, pings, responses>>

\* PingTest(addresses, latest) (lines 34-49): one Ping and one generator
\* per address; nothing is spawned.  Address lists are taken up to renaming
\* of the hosts: a non-empty list starts with "a".
Construct(most, lines) ==
    \E n \in 0..most, latest \in BOOLEAN :
      \E addrs \in [1..n -> Hosts] :
        /\ n > 0 => addrs[1] = "a"
        /\ addresses = addrs
        /\ times = [i \in 1..n |-> i]
        /\ pings = [i \in 1..n |-> i]
        /\ responses = [i \in 1..n |-> <<>>]
        /\ ping = [i \in 1..n |-> NewPing]
        /\ gen = [i \in 1..n |-> NewGen(i, FALSE, 0, latest)]
        /\ proc = [i \in 1..n |-> NoProc]
        /\ hung = FALSE
        /\ quota = lines
        /\ call = Call("PingTest", PyNone)
        /\ result = Return(PyNone)

\* PingTest.get(address)
Get(address) ==
    /\ ~hung
    /\ \E o \in get(Ledger, address) :
         /\ SetLedger(o.L)
         /\ call' = Call("get", address)
         /\ result' = o.res

\* PingTest.fastest / slowest / mean (lines 97-119)
Stat(name, address) ==
    /\ ~hung
    /\ \E o \in do_stat(Ledger,
                          CASE name = "fastest" -> "min"
                            [] name = "slowest" -> "max"
                            [] name = "mean" -> "mean",
                          address) :
         /\ SetLedger(o.L)
         /\ call' = Call(name, address)
         /\ result' = o.res

\* PingTest.stop()
StopAll ==
    /\ ~hung
    /\ SetLedger(PingTest_stop(Ledger))
    /\ call' = Call("stop", PyNone)
    /\ result' = Return(PyNone)

\* PingTest.remove(address)
Remove(address) ==
    /\ ~hung
    /\ \E o \in remove(Ledger, address) :
         /\ SetLedger(o.L)
         /\ call' = Call("remove", address)
         /\ result' = o.res

\* A running ping process prints one more line.
Emit(g) ==
    /\ proc[g].spawned /\ proc[g].running
    /\ quota > 0
    /\ quota' = quota - 1
    /\ proc' = [proc EXCEPT ![g].emitted = @ + 1]
    /\ call' = Call("process", PyNone)
    /\ result' = Return(PyNone)
    /\ UNCHANGED <<addresses, times, pings, responses, ping, gen, hung>>

\* A running ping process exits by itself.
Exit(g) ==
    /\ proc[g].spawned /\ proc[g].running
    /\ proc' = [proc EXCEPT ![g].running = FALSE]
    /\ call' = Call("process", PyNone)
    /\ result' = Return(PyNone)
    /\ UNCHANGED <<addresses, times, pings, responses, ping, gen, hung, quota>>

Next ==
    \/ \E a \in Selectors : Get(a)
    \/ StopAll
    \/ \E a \in Selectors : Remove(a)
    \/ \E g \in 1..Len(proc) : Emit(g)
    \/ \E g \in 1..Len(proc) : Exit(g)

Init == Construct(MaxHosts, MaxLines)

Spec == Init /\ [][Next]_vars

\* The ledger with its statistics methods called as well.
NextStats ==
    \/ Next
    \/ \E name \in {"fastest", "slowest", "mean"}, a \in Selectors : Stat(name, a)

InitStats == Construct(StatHosts, MaxLines)

SpecStats == InitStats /\ [][NextStats]_vars

\* The ledger with get as the only method called.
NextGet ==
    \/ \E a \in Selectors : Get(a)
    \/ \E g \in 1..Len(proc) : Emit(g)
    \/ \E g \in 1..Len(proc) : Exit(g)

InitGet == Construct(MaxHosts, GetLines)

SpecGet == InitGet /\ [][NextGet]_vars

\* ------------------------------------------- a Ping object used directly
\* Ping(host): one Ping object, no generator yet.
InitPing ==
    /\ addresses = <<>>
    /\ times = <<>>
    /\ pings = <<>>
    /\ responses = <<>>
    /\ ping = <<NewPing>>
    /\ gen = <<>>
    /\ proc = <<>>
    /\ hung = FALSE
    /\ quota = PingLines
    /\ call = Call("Ping", PyNone)
    /\ result = Return(PyNone)

\* ping.ping(packets, latest): makes the generator; its body has not run.
PingPing(bounded, packets, latest) ==
    /\ ~hung
    /\ Len(gen) < MaxGens
    /\ gen' = Append(gen, NewGen(1, bounded, packets, latest))
    /\ proc' = Append(proc, NoProc)
    /\ call' = Call("ping", PyNone)
    /\ result' = Return(PyInt(Len(gen) + 1))
    /\ UNCHANGED <<addresses, times, pings, responses, ping, hung, quota>>

\* next(g) on a generator made by ping.ping
GenNext(g) ==
    /\ ~hung
    /\ \E o \in gen_next(Heap, g) :
         /\ SetHeap(o.h)
         /\ call' = Call("next", PyInt(g))
         /\ result' = o.res

\* ping.stop()
PingStop ==
    /\ ~hung
    /\ LET o == Ping_stop(Heap, 1)
       IN /\ SetHeap(o.h)
          /\ result' = o.res
    /\ call' = Call("Ping.stop", PyNone)

NextPing ==
    \/ \E packets \in 0..MaxPackets : PingPing(TRUE, packets, FALSE)
    \/ \E latest \in BOOLEAN : PingPing(FALSE, 0, latest)
    \/ \E g \in 1..Len(gen) : GenNext(g)
    \/ PingStop
    \/ \E g \in 1..Len(proc) : Emit(g)
    \/ \E g \in 1..Len(proc) : Exit(g)

SpecPing == InitPing /\ [][NextPing]_vars

\* ping.ping(packets, latest) called again on the same Ping.
PingAgain(bounded, packets, latest) ==
    /\ ~hung
    /\ MaxGens <= Len(gen) /\ Len(gen) < ReuseGens
    /\ gen' = Append(gen, NewGen(1, bounded, packets, latest))
    /\ proc' = Append(proc, NoProc)
    /\ call' = Call("ping", PyNone)
    /\ result' = Return(PyInt(Len(gen) + 1))
    /\ UNCHANGED <<addresses, times, pings, responses, ping, hung, quota>>

\* A Ping object whose ping() is called more than once.
NextReuse ==
    \/ NextPing
    \/ \E packets \in 0..MaxPackets : PingAgain(TRUE, packets, FALSE)
    \/ \E latest \in BOOLEAN : PingAgain(FALSE, 0, latest)

SpecReuse == InitPing /\ [][NextReuse]_vars

\* ---------------------------------------------------------------- claims

\* C1: in every state of a constructed ledger, whatever get, remove,
\* fastest/slowest/mean and stop calls were made and whether they failed,
\* addresses, __times, __pings and responses have the same length.
C1_ListsSameLength ==
    /\ Len(addresses) = Len(times)
    /\ Len(times) = Len(pings)
    /\ Len(pings) = Len(responses)

\* A remove has evicted an entry.
C1_Witness ==
    /\ call.op = "remove"
    /\ result.kind = "return"
    /\ Len(pings) < Len(ping)
    /\ C1_ListsSameLength

C3_AddressLikeIndex ==
    [][\A s \in Hosts :
          (/\ call' = Call("get", PyStr(s))
           /\ IndexOf(addresses, s) >= 0
           /\ Get(PyStr(s)))
          => \E o \in get(Ledger, PyInt(IndexOf(addresses, s))) :
                /\ SetLedger(o.L)
                /\ result' = o.res]_vars

\* C4: a get(None) that returns has pulled exactly one sample from every
\* entry and returns the list of their times in entry order: element i is
\* the time printed on the line entry i's generator has just read, and is
\* what was appended to entry i's history.  Without latest, each process
\* was read by exactly one line (after its banner).  Entries are visited in
\* index order: when the call fails at an entry, the entries before it have
\* advanced by one sample and the entries after it are untouched.
C4_GetAllAdvancesEach ==
    [][call' = Call("get", PyNone) =>
        LET n == Len(times)
            pulled(i) ==
                LET g == times[i]
                    t == CASE gen'[g].line.kind = "reply" -> PyFloat(100)
                           [] gen'[g].line.kind = "reply2" -> PyFloat(25)
                           [] OTHER -> PyNone
                IN /\ gen'[g].state = "suspended"
                   /\ gen'[g].done = gen[g].done + 1
                   /\ gen'[g].line.pos = proc'[g].rd
                   /\ gen'[g].line.pos > proc[g].rd
                   /\ ~gen[g].latest =>
                        proc'[g].rd = IF gen[g].state = "created" THEN 2
                                      ELSE proc[g].rd + 1
                   /\ Len(responses'[i]) = Len(responses[i]) + 1
                   /\ SubSeq(responses'[i], 1, Len(responses[i])) = responses[i]
                   /\ responses'[i][Len(responses'[i])] = t
            untouched(i) ==
                /\ gen'[times[i]] = gen[times[i]]
                /\ proc'[times[i]] = proc[times[i]]
                /\ responses'[i] = responses[i]
        IN /\ times' = times /\ addresses' = addresses /\ pings' = pings
           /\ result'.kind = "return" =>
                /\ result'.val.t = "list"
                /\ Len(result'.val.v) = n
                /\ \A i \in 1..n :
                     /\ pulled(i)
                     /\ result'.val.v[i] = responses'[i][Len(responses'[i])]
           /\ result'.kind # "return" =>
                \E k \in 1..n :
                     /\ \A i \in 1..(k - 1) : pulled(i)
                     /\ gen'[times[k]].state \in {"finished", "running"}
                     /\ responses'[k] = responses[k]
                     /\ \A i \in (k + 1)..n : untouched(i)]_vars

\* get(None) has returned two different times for two entries.
C4_Witness ==
    /\ call = Call("get", PyNone)
    /\ result.kind = "return"
    /\ Len(times) = 2
    /\ Len(result.val.v) = 2
    /\ result.val.v[1] # result.val.v[2]
    /\ responses[1][Len(responses[1])] = result.val.v[1]
    /\ responses[2][Len(responses[2])] = result.val.v[2]

\* C5: with packets None and latest set, a next() made while n >= 2
\* complete lines are unread returns the sample of the newest of them (the
\* line at position emitted carries icmp_seq emitted - 1) and leaves none
\* of the older ones to be read later.
C5_LatestReturnsNewest ==
    [][\A g \in 1..Len(gen) :
          (/\ call'.op = "next"
           /\ GenNext(g)
           /\ gen[g].state = "suspended"
           /\ ~gen[g].bounded /\ gen[g].latest
           /\ proc[ping[1].ping_command].emitted - proc[ping[1].ping_command].rd >= 2
           /\ result'.kind = "return")
          => LET c == ping[1].ping_command
             IN /\ result'.val.v[1] = PyInt(proc[c].emitted - 1)
                /\ proc'[c].rd >= proc[c].emitted - 1]_vars

\* C6: a generator made with packets = K yields on each of its first K
\* calls when the line it reads is a well-formed reply, reading exactly one
\* line per call after the banner, and its call after the K-th yield raises
\* StopIteration without reading anything.
C6_BoundedYieldsKThenStops ==
    [][\A g \in 1..Len(gen) :
          (/\ call'.op = "next"
           /\ gen[g].bounded /\ gen[g].state # "finished"
           /\ GenNext(g))
          => LET c == ping'[1].ping_command
                 before == IF gen[g].state = "created" THEN 1 ELSE proc[c].rd
             IN /\ (gen[g].done < gen[g].packets
                      /\ result'.at.kind \in {"reply", "reply2"})
                   => /\ result'.kind = "return"
                      /\ proc'[c].rd = before + 1
                /\ gen[g].done = gen[g].packets
                   => /\ result'.kind = "raise"
                      /\ result'.val.v = "StopIteration"
                      /\ gen[g].state = "suspended" => proc' = proc]_vars

\* C7: the next() that follows a stop() raises StopIteration: it does not
\* yield and it spawns nothing.
C7_StoppedIsTerminal ==
    [][(call.op = "Ping.stop" /\ call'.op = "next")
        => /\ result'.kind = "raise"
           /\ result'.val.v = "StopIteration"
           /\ \A g \in 1..Len(proc) : proc'[g].spawned = proc[g].spawned]_vars

\* C8: stop() never fails, on a Ping that never started and on one that was
\* stopped before alike, and when it returns the stream's process (a stream
\* being a Ping with the one process its generator spawned, if any) is not
\* running.
C8_StopTotal ==
    call.op = "Ping.stop" =>
        /\ result = Return(PyNone)
        /\ Cardinality({g \in 1..Len(proc) : proc[g].spawned}) <= 1
             => \A g \in 1..Len(proc) : ~proc[g].running

\* stop() has returned on a Ping whose generator was never started.
C8_Witness ==
    /\ call.op = "Ping.stop"
    /\ result = Return(PyNone)
    /\ Len(gen) >= 1
    /\ ping[1].ping_command = 0
    /\ \A g \in 1..Len(proc) : ~proc[g].spawned

C10_RemoveEvictsSelected ==
    [][\A a \in Selectors :
          (/\ \/ IsInt(a) /\ 0 <= a.v /\ a.v < Len(addresses)
              \/ a.t = "str" /\ IndexOf(addresses, a.v) >= 0
           /\ call' = Call("remove", a)
           /\ Remove(a))
          => LET pos == IF IsInt(a) THEN a.v + 1 ELSE IndexOf(addresses, a.v) + 1
             IN /\ result' = Return(PyNone)
                /\ addresses' = PopAt(addresses, pos)
                /\ times' = PopAt(times, pos)
                /\ pings' = PopAt(pings, pos)
                /\ responses' = PopAt(responses, pos)
                /\ ~proc'[times[pos]].running]_vars

C12_BadSelectorsRejected ==
    [][(call'.op \in {"get", "remove"} /\ call'.argt \in {"int", "str"}) =>
        \A a \in Selectors :
          (/\ call' = Call(call'.op, a)
           /\ \/ a.t = "str" /\ IndexOf(addresses, a.v) < 0
              \/ IsInt(a) /\ (a.v < 0 \/ a.v >= Len(addresses))
           /\ \/ call'.op = "get" /\ Get(a)
              \/ call'.op = "remove" /\ Remove(a))
          => /\ result'.kind = "raise"
             /\ result'.val.v = IF IsInt(a) THEN "IndexError" ELSE "ValueError"
             /\ UNCHANGED <<addresses, times, pings, responses, ping, gen,
                            proc, hung, quota>>]_vars

\* C13: a next() that reads a line with the tokens icmp_seq=N and
\* Unreachable (and no time= token) yields (N, None).
C13_UnreachableYieldsNone ==
    [][(call'.op = "next" /\ result'.at.kind = "unreachable") =>
        /\ result'.kind = "return"
        /\ PyEq(result'.val,
                PyTuple(<<PyInt(result'.at.pos - 1), PyNone>>))]_vars

\* C14: a next() that reads a line with an icmp_seq= token and either no
\* time= token or a time= token without a digit after it comes to an end
\* and raises: the loop that strips the trailing characters terminates.
C14_MalformedTimeRaises ==
    [][(call'.op = "next" /\ result'.at.kind \in {"notime", "badtime"}) =>
        /\ result'.kind = "raise"
        /\ ~hung']_vars

\* C15: a next() whose read of the sample line meets end of file (the
\* process has exited and nothing is left to read), with packets given or
\* not, ends the sequence with StopIteration and not with a failure of the
\* parsing.
C15_EndOfFileEndsSequence ==
    [][call'.op = "next" =>
        \A g \in 1..Len(gen) :
          (/\ gen[g].state \in {"created", "suspended"}
           /\ ~(gen[g].bounded /\ gen[g].done = gen[g].packets)
           /\ gen'[g].state = "finished"
           /\ result'.at.kind = "eof")
          => /\ result'.kind = "raise"
             /\ result'.val.v = "StopIteration"]_vars

\* C16: the next() that follows a next() which failed on a malformed line
\* (no icmp_seq= token, or no time= token) does not raise StopIteration: the
\* generator goes on and reads the line after the malformed one, provided
\* there is one to read.
C16_MalformedLineKeepsStream ==
    [][(/\ call.op = "next"
        /\ result.kind = "raise"
        /\ result.at.kind \in {"notime", "summary"}
        /\ call'.op = "next") =>
        \A g \in 1..Len(gen) :
          (/\ gen[g].state = "finished"
           /\ proc[g].spawned
           /\ proc[g].emitted > proc[g].rd
           /\ GenNext(g))
          => /\ ~(result'.kind = "raise" /\ result'.val.v = "StopIteration")
             /\ proc'[g].rd = proc[g].rd + 1]_vars

\* C17: a generator that has not been pulled has no process; its first
\* next() spawns exactly one and takes its first output line away, so that
\* unless latest applies the k-th next() that yields returns the sample of
\* output line k + 1 (icmp_seq k); a next() on a generator that was pulled
\* before spawns nothing.  (A stream being a Ping with the one generator
\* made from it.)
C17_SpawnOnFirstPull ==
    [][/\ \A g \in 1..Len(gen') :
            gen'[g].state = "created" => ~proc'[g].spawned
       /\ (call'.op = "next" /\ Len(gen) = 1) =>
            \A g \in 1..Len(gen) :
              /\ gen[g].state # "created" =>
                    proc'[g].spawned = proc[g].spawned
              /\ (gen[g].state = "created" /\ gen'[g] # gen[g]) =>
                    /\ proc'[g].spawned
                    /\ \A p \in 1..Len(proc) : p # g => proc'[p] = proc[p]
              /\ (/\ gen'[g] # gen[g]
                  /\ result'.kind = "return"
                  /\ gen[g].bounded \/ ~gen[g].latest) =>
                    /\ result'.at.pos = gen'[g].done + 1
                    /\ proc'[g].rd = gen'[g].done + 1
                    /\ result'.val.v[1] = PyInt(gen'[g].done)]_vars

\* The second next() of a generator without latest has yielded the sample
\* of the third output line.
C17_Witness ==
    /\ call.op = "next"
    /\ result.kind = "return"
    /\ \E g \in 1..Len(gen) :
          /\ ~gen[g].latest
          /\ gen[g].done = 2
          /\ result.at.pos = 3
          /\ proc[g].rd = 3
          /\ result.val.v[1] = PyInt(2)

\* C18: fastest, slowest and mean, called with None, an index of the ledger
\* or an address of the ledger, change nothing: no generator advances, no
\* process is spawned or stopped and every history stays as it was.
C18_StatsReadOnly ==
    [][call'.op \in {"fastest", "slowest", "mean"} =>
        \A a \in Selectors :
          (/\ call' = Call(call'.op, a)
           /\ \/ IsNone(a)
              \/ IsInt(a) /\ 0 <= a.v /\ a.v < Len(addresses)
              \/ a.t = "str" /\ IndexOf(addresses, a.v) >= 0
           /\ Stat(call'.op, a))
          => UNCHANGED <<addresses, times, pings, responses, ping, gen,
                         proc, hung, quota>>]_vars

\* C19: a Ping never has more than one running process of its own, and when
\* its stop() has returned none of the processes it spawned is running,
\* whatever ping(), next() and stop() calls were made on it, ping() called
\* and pulled more than once included.
C19_OneProcessAllStopped ==
    /\ Cardinality({g \in 1..Len(proc) : proc[g].spawned /\ proc[g].running}) <= 1
    /\ call.op = "Ping.stop" => \A g \in 1..Len(proc) : ~proc[g].running

====
